---------------------------- MODULE Spec2Model ----------------------------
(***************************************************************************)
(* A model of the go-spss writer (src/writer.go, src/main.go): the         *)
(* SpssWriter with its buffered output, the bytecode compressor and the    *)
(* records it emits.  Strings are sequences of byte values, the output is  *)
(* a sequence of bytes, float64 values are integer multiples of 1/2.       *)
(***************************************************************************)
EXTENDS Integers, Sequences, FiniteSets, TLC

(***************************************************************************)
(* Bounds of the model.                                                    *)
(***************************************************************************)
\* accepted variables per run
MaxVars == 2
\* AddValueRow calls per run
MaxRows == 2
\* size of the bufio.Writer buffer (4096 in the Go library; small here so
\* that the buffer is flushed to the sink in the middle of a run)
BufSize == 128

(***************************************************************************)
(* Bytes, integers and floats.                                             *)
(***************************************************************************)
\* Go's integer division and remainder truncate toward zero
Quot(a, b) == IF a >= 0 THEN a \div b ELSE -((-a) \div b)
Rem(a, b) == a - b * Quot(a, b)

Rep(c, n) == [i \in 1..n |-> c]

SubSeqFrom(s, i) == SubSeq(s, i, Len(s))

\* the concatenation of the sequences ss[lo], ..., ss[hi]
RECURSIVE ConcatRange(_, _, _)
ConcatRange(ss, lo, hi) ==
  IF lo > hi THEN <<>>
  ELSE IF lo = hi THEN ss[lo]
  ELSE LET mid == (lo + hi) \div 2
       IN  ConcatRange(ss, lo, mid) \o ConcatRange(ss, mid + 1, hi)

Concat(ss) == ConcatRange(ss, 1, Len(ss))

\* bitwise or of two non-negative integers
RECURSIVE BitOr(_, _)
BitOr(a, b) ==
  IF a = 0 THEN b
  ELSE IF b = 0 THEN a
  ELSE (IF a % 2 = 1 \/ b % 2 = 1 THEN 1 ELSE 0) + 2 * BitOr(a \div 2, b \div 2)

\* binary.Write(w, binary.LittleEndian, int32(x))
LE32(x) ==
  LET y == IF x >= 0 THEN x ELSE (x + 2147483647) + 1
      top == IF x >= 0 THEN 0 ELSE 128
  IN  << y % 256, (y \div 256) % 256, (y \div 65536) % 256,
         (y \div 16777216) + top >>

\* the int32 a reader decodes from the four bytes at offsets off..off+3
\* (offsets count from 0); -2 when the bytes are not all there
I32At(bytes, off) ==
  IF Len(bytes) < off + 4 THEN -2
  ELSE LET b0 == bytes[off + 1]
           b1 == bytes[off + 2]
           b2 == bytes[off + 3]
           b3 == bytes[off + 4]
           low == b0 + 256 * b1 + 65536 * b2
       IN  IF b3 < 128 THEN low + 16777216 * b3
           ELSE ((low + 16777216 * (b3 - 128)) - 2147483647) - 1

\* position of the most significant bit of a > 0
RECURSIVE Msb(_)
Msb(a) == IF a <= 1 THEN 0 ELSE 1 + Msb(a \div 2)

RECURSIVE Pow2(_)
Pow2(n) == IF n = 0 THEN 1 ELSE 2 * Pow2(n - 1)

\* a float64 is a record: h is twice its value, nan marks the NaN that
\* strconv.ParseFloat returns for "NaN"
Fl(h) == [nan |-> FALSE, h |-> h]
NaN == [nan |-> TRUE, h |-> 0]

\* binary.Write(w, binary.LittleEndian, f) for the float64 f:
\* sign, 11 bits of exponent, 52 bits of fraction, least significant byte
\* first (|h| < 2^21, so the fraction fits its first 20 bits)
F64(f) ==
  IF f.nan THEN << 1, 0, 0, 0, 0, 0, 248, 127 >>
  ELSE IF f.h = 0 THEN << 0, 0, 0, 0, 0, 0, 0, 0 >>
  ELSE LET h == f.h
           a == IF h < 0 THEN -h ELSE h
           k == Msb(a)
           e == 1023 + k - 1
           frac == (a - Pow2(k)) * Pow2(20 - k)
           sign == IF h < 0 THEN 128 ELSE 0
       IN  << 0, 0, 0, 0, frac % 256, (frac \div 256) % 256,
              (e % 16) * 16 + frac \div 65536, sign + e \div 16 >>

\* math.MaxFloat64 and -math.MaxFloat64 as written by binary.Write
MaxFloat64Bytes == << 255, 255, 255, 255, 255, 255, 239, 127 >>
NegMaxFloat64Bytes == << 255, 255, 255, 255, 255, 255, 239, 255 >>

(***************************************************************************)
(* Text.  A string is the sequence of its bytes.                           *)
(***************************************************************************)
SP == 32

IsLower(c) == c >= 97 /\ c <= 122
IsUpper(c) == c >= 65 /\ c <= 90
IsDigit(c) == c >= 48 /\ c <= 57

\* strings.ToUpper on ASCII text
ToUpper(s) == [i \in 1..Len(s) |-> IF IsLower(s[i]) THEN s[i] - 32 ELSE s[i]]

\* strconv.Itoa for i >= 0
RECURSIVE Itoa(_)
Itoa(i) == IF i < 10 THEN << 48 + i >> ELSE Itoa(i \div 10) \o << 48 + (i % 10) >>

stobp(s, l, pad) ==
  IF Len(s) > l THEN SubSeq(s, 1, l)
  ELSE IF Len(s) < l THEN s \o Rep(pad, l - Len(s))
  ELSE s

stob(s, l) == stobp(s, l, SP)

trim(s, l) == IF Len(s) > l THEN SubSeq(s, 1, l) ELSE s

(***************************************************************************)
(* The output: the bufio.Writer in front of the sink (the file).  An       *)
(* output state o is a record                                              *)
(*   buf   the bytes buffered in the bufio.Writer                          *)
(*   werr  the sticky error of the bufio.Writer                            *)
(*   file  the bytes of the sink                                           *)
(*   pos   the sink's write offset                                         *)
(*   ok    whether the sink accepts writes and seeks                       *)
(*   fatal log.Fatalln ended the program                                   *)
(*   log   history: kind and length of every record handed to the writer   *)
(***************************************************************************)
\* os.File.Write at the current offset
FileWrite(o, p) ==
  IF ~o.ok THEN o
  ELSE LET end == o.pos + Len(p)
       IN  [o EXCEPT !.file = SubSeq(o.file, 1, o.pos) \o p
                               \o SubSeq(o.file, end + 1, Len(o.file)),
                     !.pos = end]

\* bufio.Writer.Flush
bufioFlush(o) ==
  IF o.werr \/ Len(o.buf) = 0 THEN o
  ELSE IF ~o.ok THEN [o EXCEPT !.werr = TRUE]
  ELSE [FileWrite(o, o.buf) EXCEPT !.buf = <<>>]

\* bufio.Writer.Write: while p does not fit, either write it to the sink
\* directly (empty buffer) or fill the buffer and flush it
RECURSIVE bufioWrite(_, _)
bufioWrite(o, p) ==
  LET avail == BufSize - Len(o.buf) IN
  IF Len(p) > avail /\ ~o.werr THEN
    IF Len(o.buf) = 0
      THEN IF o.ok THEN FileWrite(o, p) ELSE [o EXCEPT !.werr = TRUE]
      ELSE bufioWrite(bufioFlush([o EXCEPT !.buf = o.buf \o SubSeq(p, 1, avail)]),
                      SubSeqFrom(p, avail + 1))
  ELSE IF o.werr THEN o
  ELSE [o EXCEPT !.buf = o.buf \o p]

\* a run of s.Write / binary.Write(s, ...) calls, one per chunk (after an
\* error every write returns at once)
RECURSIVE WriteRange(_, _, _, _)
WriteRange(o, chunks, lo, hi) ==
  IF lo > hi \/ o.werr THEN o
  ELSE IF lo = hi THEN bufioWrite(o, chunks[lo])
  ELSE LET mid == (lo + hi) \div 2
       IN  WriteRange(WriteRange(o, chunks, lo, mid), chunks, mid + 1, hi)

WriteAll(o, chunks) == WriteRange(o, chunks, 1, Len(chunks))

\* the writes of one record, noted in the log (none once the program has
\* ended)
Emit(o, kind, chunks) ==
  IF o.fatal THEN o
  ELSE [WriteAll(o, chunks) EXCEPT
          !.log = Append(o.log, [kind |-> kind, len |-> Len(Concat(chunks))])]

(***************************************************************************)
(* The bytecode compressor (src/main.go).  A compressor state b is a       *)
(* record                                                                  *)
(*   command  the 8 opcodes of the current group                           *)
(*   index    the cursor                                                   *)
(*   data     the payloads of the group's 253 opcodes                      *)
(*   o        the output it writes to                                      *)
(*   err      the error returned by the last operation                     *)
(*   panic    an index past the command array stopped the program          *)
(*   pushed   history: the opcodes pushed by the current call              *)
(***************************************************************************)
Bias == 100

\* checkAndWrite without w.data.Truncate(0)
checkAndWriteKeepsData(b) ==
  IF b.index >= 8 THEN
    LET written(o2) ==
          IF o2.werr THEN [b EXCEPT !.o = o2, !.err = TRUE]
          ELSE [b EXCEPT !.o = [o2 EXCEPT !.log = Append(o2.log,
                                   [kind |-> "group", len |-> 8 + Len(b.data)])],
                         !.index = 0, !.err = FALSE]
    IN  written(bufioWrite(bufioWrite(b.o, b.command), b.data))
  ELSE [b EXCEPT !.err = FALSE]

checkAndWrite(b) ==
  IF b.index >= 8 THEN
    LET o1 == bufioWrite(b.o, b.command) IN
    IF o1.werr THEN [b EXCEPT !.o = o1, !.err = TRUE]
    ELSE LET o2 == bufioWrite(o1, b.data) IN
         IF o2.werr THEN [b EXCEPT !.o = o2, !.err = TRUE]
         ELSE [b EXCEPT !.o = [o2 EXCEPT !.log = Append(o2.log,
                                  [kind |-> "group", len |-> 8 + Len(b.data)])],
                        !.index = 0, !.data = <<>>, !.err = FALSE]
  ELSE [b EXCEPT !.err = FALSE]

\* w.command[w.index] = op; w.index++ (a cursor of 8, left by a failed
\* write, is out of range: the program panics)
Push(b, op, payload) ==
  IF b.panic THEN b
  ELSE IF b.index >= 8 THEN [b EXCEPT !.panic = TRUE]
  ELSE [b EXCEPT !.command[b.index + 1] = op,
                 !.index = b.index + 1,
                 !.data = b.data \o payload,
                 !.pushed = Append(b.pushed, op)]

AfterPush(b) == IF b.panic THEN b ELSE checkAndWrite(b)

WriteMissingAsZero(b) == AfterPush(Push(b, Bias, <<>>))

WriteMissing(b) == AfterPush(Push(b, 255, <<>>))

\* WriteNumber with the loop ending at i < 251
WriteNumberBelow251(b, number) ==
  IF ~number.nan /\ \E i \in 1..250 : number.h = 2 * (i - Bias)
    THEN AfterPush(Push(b, (number.h \div 2) + Bias, <<>>))
    ELSE AfterPush(Push(b, 253, F64(number)))

\* for i := 1.0; i <= 251; i++ { if number == i-w.bias ...
WriteNumber(b, number) ==
  IF ~number.nan /\ \E i \in 1..251 : number.h = 2 * (i - Bias)
    THEN AfterPush(Push(b, (number.h \div 2) + Bias, <<>>))
    ELSE AfterPush(Push(b, 253, F64(number)))

Spaces8 == Rep(SP, 8)

RECURSIVE WriteStringLoop(_, _, _, _)
WriteStringLoop(b, val, i, elements) ==
  IF i >= elements \/ b.panic THEN [b EXCEPT !.err = FALSE]
  ELSE LET p0 == IF Len(val) > 8 THEN SubSeq(val, 1, 8) ELSE val
           rest == IF Len(val) > 8 THEN SubSeqFrom(val, 9) ELSE <<>>
           p == IF Len(p0) < 8 THEN p0 \o Rep(SP, 8 - Len(p0)) ELSE p0
           b1 == IF p = Spaces8 THEN Push(b, 254, <<>>) ELSE Push(b, 253, p)
           b2 == AfterPush(b1)
       IN  IF b2.panic \/ b2.err THEN b2
           ELSE WriteStringLoop(b2, rest, i + 1, elements)

\* WriteString with the loop running while i <= elements
WriteStringOneMore(b, val, elements) == WriteStringLoop(b, val, 0, elements + 1)

WriteString(b, val, elements) == WriteStringLoop(b, val, 0, elements)

RECURSIVE PadCommand(_)
PadCommand(b) ==
  IF b.index < 8
    THEN PadCommand([b EXCEPT !.command[b.index + 1] = 0, !.index = b.index + 1])
    ELSE b

\* bytecodeWriter.Flush
Flush(b) == checkAndWrite(PadCommand(b))

(***************************************************************************)
(* The schema (src/main.go).                                               *)
(***************************************************************************)
SpssTypeNumeric == "NUMERIC"
SpssTypeDate == "DATE"
SpssTypeDatetime == "DATETIME"
SpssTypeString == "STRING"

SpssMeasureOrdinal == "ORDINAL"
SpssMeasureNominal == "NOMINAL"
SpssMeasureScale == "SCALE"

\* (?si)^[a-z@][a-z0-9!._#@$]*[^\.]$
IsLetter(c) == IsLower(c) \/ IsUpper(c)
NameChar(c) == IsLetter(c) \/ IsDigit(c) \/ c \in {33, 46, 95, 35, 64, 36}
nameValidatorRegex(s) ==
  /\ Len(s) >= 2
  /\ IsLetter(s[1]) \/ s[1] = 64
  /\ \A i \in 2..(Len(s) - 1) : NameChar(s[i])
  /\ s[Len(s)] # 46

getMeasure(V) ==
  IF V.Measure = SpssMeasureScale THEN 3
  ELSE IF V.Measure = SpssMeasureOrdinal THEN 2
  ELSE 1

getPrint(V) ==
  IF V.Type = SpssTypeNumeric THEN 5
  ELSE IF V.Type = SpssTypeDate THEN 20
  ELSE IF V.Type = SpssTypeDatetime THEN 22
  ELSE 1

getSegments(V) == 1

\* setDefaultWidth without the assignments v.Decimal = 0
setDefaultWidthKeepsDecimal(V) ==
  IF V.Type = SpssTypeDate THEN [V EXCEPT !.Width = 11]
  ELSE IF V.Type = SpssTypeDatetime THEN [V EXCEPT !.Width = 20]
  ELSE IF V.Type = SpssTypeString THEN [V EXCEPT !.Width = 40]
  ELSE [V EXCEPT !.Width = 8 + V.Decimal]

setDefaultWidth(V) ==
  IF V.Type = SpssTypeDate THEN [V EXCEPT !.Decimal = 0, !.Width = 11]
  ELSE IF V.Type = SpssTypeDatetime THEN [V EXCEPT !.Decimal = 0, !.Width = 20]
  ELSE IF V.Type = SpssTypeString THEN [V EXCEPT !.Decimal = 0, !.Width = 40]
  ELSE [V EXCEPT !.Width = 8 + V.Decimal]

segmentWidth(v, i) ==
  IF v.spssType = SpssTypeString
    THEN IF Len(v.labels) <= 0 THEN v.width ELSE 40
    ELSE 0

\* elementCount as width / 8 + 1
elementCountPlusOne(width) == Quot(width, 8) + 1

elementCount(width) == Quot(width - 1, 8) + 1

\* the sum, over the segments of v, of the elements of each
RECURSIVE elementsOf(_, _)
elementsOf(v, se) ==
  IF se >= v.segments THEN 0
  ELSE elementCount(segmentWidth(v, se)) + elementsOf(v, se + 1)

RECURSIVE caseSize(_)
caseSize(vars) ==
  IF Len(vars) = 0 THEN 0 ELSE elementsOf(Head(vars), 0) + caseSize(Tail(vars))

\* getShortName's loop: the result is [panic, short]; slicing short past
\* its length, or at a negative bound, panics
RECURSIVE shortNameLoop(_, _, _)
shortNameLoop(nm, short, i) ==
  IF short \notin DOMAIN nm THEN [panic |-> FALSE, short |-> short]
  ELSE LET iString == Itoa(i)
           cut == 8 - Len(iString)
       IN  IF cut < 0 \/ cut > Len(short)
             THEN [panic |-> TRUE, short |-> short]
             ELSE shortNameLoop(nm, SubSeq(short, 1, cut) \o iString, i + 1)

\* the result is [panic, short, names]
getShortName(nm, V) ==
  LET up == ToUpper(V.Name)
      r == shortNameLoop(nm, IF Len(up) > 8 THEN SubSeq(up, 1, 8) ELSE up, 1)
  IN  [panic |-> r.panic, short |-> r.short,
       names |-> IF r.panic THEN nm ELSE (r.short :> V.Name) @@ nm]

checkAndGetShortName(nm, V) ==
  IF V.ShortName = <<>> THEN getShortName(nm, V)
  ELSE [panic |-> FALSE, short |-> V.ShortName,
        names |-> (V.ShortName :> V.Name) @@ nm]

(***************************************************************************)
(* The writer (src/writer.go).  A writer state s is a record               *)
(*   names, variables, index, valCount   the fields of SpssWriter          *)
(*   bc    the bytecodeWriter: command, index, data                        *)
(*   o     the output (bufio.Writer and sink)                              *)
(*   ret   what the last call returned: "nil", "error", "panic" when it     *)
(*         ended the program, "none" when it returns nothing               *)
(*   cells history: the opcodes the last AddValueRow pushed, by variable   *)
(***************************************************************************)
productName == << 120, 109, 108, 50, 115, 97, 118, 32, 50, 46, 48 >>   \* "xml2sav 2.0"

\* "@(#) SPSS DATA FILE - "
prodPrefix == << 64, 40, 35, 41, 32, 83, 80, 83, 83, 32, 68, 65, 84, 65, 32,
                 70, 73, 76, 69, 32, 45, 32 >>

\* "Generated SPSS"
fileLabel == << 71, 101, 110, 101, 114, 97, 116, 101, 100, 32, 83, 80, 83, 83 >>

\* time.Now() as formatted by "02 Jan 06" and "15:04:05"
creationDate == << 48, 49, 32, 78, 111, 118, 32, 50, 54 >>   \* "01 Nov 26"
creationTime == << 49, 50, 58, 48, 48, 58, 48, 48 >>         \* "12:00:00"

headerRecord(o, vars) ==
  Emit(o, "header",
       << stob(<< 36, 70, 76, 50 >>, 4),            \* "$FL2"
          stob(prodPrefix \o productName, 60),
          LE32(2),
          LE32(caseSize(vars)),
          LE32(1),
          LE32(0),
          LE32(-1),
          F64(Fl(200)),
          stob(creationDate, 9),
          stob(creationTime, 8),
          stob(fileLabel, 64),
          stob(<< 0, 0, 0 >>, 3) >>)

\* the first failing check of AddVariable, "" when there is none
ValidationError(nm, V) ==
  IF V.Name = <<>> THEN "empty name"
  ELSE IF Len(V.Name) > 64 THEN "name too long"
  ELSE IF ~nameValidatorRegex(V.Name) THEN "ill-formed name"
  ELSE IF V.Name \in DOMAIN nm THEN "duplicate"
  ELSE IF V.Decimal < 0 \/ V.Decimal > 16 THEN "decimal"
  ELSE IF V.Width < 0 \/ V.Width > 32767 THEN "width"
  ELSE IF V.Type # SpssTypeString /\ V.Width > 40 THEN "width of a non-string"
  ELSE IF V.Width # 0 /\ V.Width <= V.Decimal THEN "width <= decimal"
  ELSE ""

labelPad(l) == LET pad == Rem(4 - l, 4) IN IF pad < 0 THEN pad + 4 ELSE pad

\* the print and write format word of a segment
formatWord(v, width) ==
  IF v.spssType = SpssTypeString
    THEN BitOr(v.format * 65536, width * 256)
    ELSE BitOr(BitOr(v.format * 65536, v.width * 256), v.decimal)

continuationRecord ==
  << LE32(2), LE32(-1), LE32(0), LE32(0), LE32(0), LE32(0), stob(Spaces8, 8) >>

\* count continuation records, one after the other
continuationRecords(o, count) ==
  IF count <= 0 THEN o
  ELSE [WriteAll(o, Concat([i \in 1..count |-> continuationRecord])) EXCEPT
          !.log = o.log \o [i \in 1..count |-> [kind |-> "cont", len |-> 32]]]

\* one pass of AddVariable's loop over the segments of v
segmentRecords(o, v, segment) ==
  LET width == segmentWidth(v, segment)
      hasLabel == segment = 0 /\ Len(v.label) > 0
      format == formatWord(v, width)
      o1 == Emit(o, "var",
                 << LE32(2), LE32(width),
                    LE32(IF hasLabel THEN 1 ELSE 0),
                    LE32(0),
                    LE32(format), LE32(format),
                    stob(v.shortName, 8) >>
                 \o (IF hasLabel
                       THEN << LE32(Len(v.label)), v.label >>
                            \o [i \in 1..labelPad(Len(v.label)) |-> << 0 >>]
                       ELSE <<>>))
  IN  IF width > 8 THEN continuationRecords(o1, elementCount(width) - 1) ELSE o1

RECURSIVE variableRecords(_, _, _)
variableRecords(s, v, segment) ==
  IF segment >= v.segments THEN s
  ELSE variableRecords([s EXCEPT !.o = segmentRecords(s.o, v, segment),
                                 !.variables = Append(s.variables, v)],
                       v, segment + 1)

\* AddVariable from the construction of v on (V has passed the checks)
Accept(s, V) ==
  LET sn == checkAndGetShortName(s.names, V)
      v == [index |-> s.index, name |-> V.Name, shortName |-> sn.short,
            spssType |-> V.Type, measure |-> getMeasure(V),
            decimal |-> V.Decimal, width |-> V.Width, format |-> getPrint(V),
            segments |-> getSegments(V), labels |-> V.Labels, label |-> V.Label]
  IN  IF sn.panic THEN [s EXCEPT !.ret = "panic"]
      ELSE variableRecords([s EXCEPT !.names = sn.names,
                                     !.index = s.index + elementsOf(v, 0),
                                     !.ret = "nil"],
                           v, 0)

AddVariableChecksLate(s, V) ==
  IF V.Name = <<>> \/ Len(V.Name) > 64 \/ ~nameValidatorRegex(V.Name)
    THEN [s EXCEPT !.ret = "error"]
  ELSE IF ValidationError(s.names, V) # ""
    THEN [Accept(s, V) EXCEPT !.ret = "error"]
  ELSE Accept(s, IF V.Width = 0 THEN setDefaultWidth(V) ELSE V)

AddVariableOn(s, V) ==
  IF ValidationError(s.names, V) # "" THEN [s EXCEPT !.ret = "error"]
  ELSE Accept(s, IF V.Width = 0 THEN setDefaultWidth(V) ELSE V)

(***************************************************************************)
(* Parsing of cell and label texts.  strconv.ParseFloat and time.Parse are *)
(* library code: they are modelled on the texts of the forms below, and    *)
(* every text of another form is a parse failure.                          *)
(***************************************************************************)
RECURSIVE digitsValue(_)
digitsValue(ds) ==
  IF Len(ds) = 0 THEN 0 ELSE 10 * digitsValue(SubSeq(ds, 1, Len(ds) - 1)) + (ds[Len(ds)] - 48)

AllDigits(ds) == Len(ds) >= 1 /\ \A i \in 1..Len(ds) : IsDigit(ds[i])

\* [-]digits[.0|.5] and "NaN": the result is [ok, f]
ParseFloat(t) ==
  LET neg == Len(t) >= 1 /\ t[1] = 45
      body == IF neg THEN Tail(t) ELSE t
      frac == Len(body) >= 3 /\ body[Len(body) - 1] = 46
              /\ body[Len(body)] \in {48, 53}
      int == IF frac THEN SubSeq(body, 1, Len(body) - 2) ELSE body
      h == 2 * digitsValue(int) + (IF frac /\ body[Len(body)] = 53 THEN 1 ELSE 0)
  IN  IF t = << 78, 97, 78 >> THEN [ok |-> TRUE, f |-> NaN]
      ELSE IF AllDigits(int)
        THEN [ok |-> TRUE, f |-> Fl(IF neg THEN -h ELSE h)]
        ELSE [ok |-> FALSE, f |-> Fl(0)]

\* TimeOffset = 12219379200 seconds = TimeOffsetDays days
TimeOffsetDays == 141428
SecondsPerDay == 86400

date14Oct1582 == << 49, 52, 45, 79, 99, 116, 45, 49, 53, 56, 50 >>
date15Oct1582 == << 49, 53, 45, 79, 99, 116, 45, 49, 53, 56, 50 >>
time000001 == << 32, 48, 48, 58, 48, 48, 58, 48, 49 >>      \* " 00:00:01"

\* time.Parse("02-Jan-2006", t): [ok, day, sec] with day the number of days
\* from 1970-01-01 and sec the second of the day
ParseDate(t) ==
  IF t = date14Oct1582 THEN [ok |-> TRUE, day |-> -141428, sec |-> 0]
  ELSE IF t = date15Oct1582 THEN [ok |-> TRUE, day |-> -141427, sec |-> 0]
  ELSE [ok |-> FALSE, day |-> 0, sec |-> 0]

\* time.Parse("02-Jan-2006 15:04:05", t)
ParseDatetime(t) ==
  IF t = date14Oct1582 \o time000001 THEN [ok |-> TRUE, day |-> -141428, sec |-> 1]
  ELSE IF t = date15Oct1582 \o time000001 THEN [ok |-> TRUE, day |-> -141427, sec |-> 1]
  ELSE [ok |-> FALSE, day |-> 0, sec |-> 0]

\* float64(t.Unix() + TimeOffset)
spssTime(t) == Fl(2 * ((t.day + TimeOffsetDays) * SecondsPerDay + t.sec))

(***************************************************************************)
(* The records written at the first AddValueRow.                           *)
(***************************************************************************)
valuePad(l) == LET pad == Rem(8 - l - 1, 8) IN IF pad < 0 THEN pad + 8 ELSE pad

\* the chunks of one label of v
labelEntry(v, label) ==
  LET l == IF Len(label.Desc) > 120 THEN 120 ELSE Len(label.Desc) IN
  << IF v.spssType # SpssTypeNumeric THEN stob(label.Value, 8)
     ELSE F64(ParseFloat(label.Value).f),
     << l >>,
     stob(label.Desc, l) >>
  \o [i \in 1..valuePad(l) |-> << SP >>]

\* atof: log.Fatalln when a label value of a Numeric variable does not parse
atofFails(v) ==
  /\ v.spssType = SpssTypeNumeric
  /\ \E i \in 1..Len(v.labels) : ~ParseFloat(v.labels[i].Value).ok

\* the result is the output, with fatal set when atof ended the program
RECURSIVE valueLabelRecords(_, _)
valueLabelRecords(o, vars) ==
  IF Len(vars) = 0 \/ o.fatal THEN o
  ELSE LET v == Head(vars) IN
       IF Len(v.labels) > 0 /\ v.spssType # SpssTypeString
         THEN IF atofFails(v) THEN [o EXCEPT !.fatal = TRUE]
              ELSE valueLabelRecords(
                     Emit(Emit(o, "labels",
                               << LE32(3), LE32(Len(v.labels)) >>
                               \o Concat([i \in 1..Len(v.labels) |->
                                            labelEntry(v, v.labels[i])])),
                          "labelvars", << LE32(4), LE32(1), LE32(v.index) >>),
                     Tail(vars))
         ELSE valueLabelRecords(o, Tail(vars))

machineIntegerInfoRecord(o) ==
  Emit(o, "info3", << LE32(7), LE32(3), LE32(4), LE32(8), LE32(0), LE32(10),
                      LE32(1), LE32(-1), LE32(1), LE32(1), LE32(2), LE32(65001) >>)

machineFloatingPointInfoRecord(o) ==
  Emit(o, "info4", << LE32(7), LE32(4), LE32(8), LE32(3), NegMaxFloat64Bytes,
                      MaxFloat64Bytes, NegMaxFloat64Bytes >>)

RECURSIVE varCount(_)
varCount(vars) ==
  IF Len(vars) = 0 THEN 0 ELSE Head(vars).segments + varCount(Tail(vars))

\* measure, width and alignment of segment se of v
displayParameters(v, se) ==
  << LE32(v.measure) >>
  \o (IF v.spssType = SpssTypeString
        THEN << LE32(IF se # 0 THEN 8 ELSE IF v.width <= 40 THEN v.width ELSE 40),
                LE32(0) >>
        ELSE << LE32(8), LE32(1) >>)

variableDisplayParameterRecord(o, vars) ==
  Emit(o, "info11",
       << LE32(7), LE32(11), LE32(4), LE32(varCount(vars) * 3) >>
       \o Concat([i \in 1..Len(vars) |->
                    Concat([se \in 1..vars[i].segments |->
                              displayParameters(vars[i], se - 1)])]))

\* the payload of the long names record; order lists the keys of names in
\* the order in which the map iteration visits them
longVarNamePayload(nm, order) ==
  Concat([i \in 1..Len(order) |->
            order[i] \o << 61 >> \o nm[order[i]]
            \o (IF i - 1 < Len(order) - 1 THEN << 9 >> ELSE <<>>)])

longVarNameRecords(o, nm, order) ==
  LET payload == longVarNamePayload(nm, order) IN
  Emit(o, "info13", << LE32(7), LE32(13), LE32(1), LE32(Len(payload)), payload >>)

veryLongStringPayload(vars) ==
  Concat([i \in 1..Len(vars) |->
            IF vars[i].segments > 1
              THEN vars[i].shortName \o << 61 >> \o stobp(Itoa(0), 5, 0) \o << 0, 9 >>
              ELSE <<>>])

veryLongStringRecord(o, vars) ==
  IF ~\E i \in 1..Len(vars) : vars[i].segments > 1 THEN o
  ELSE LET payload == veryLongStringPayload(vars) IN
       Emit(o, "info14", << LE32(7), LE32(14), LE32(1), LE32(Len(payload)), payload >>)

encodingRecord(o) ==
  Emit(o, "info20", << LE32(7), LE32(20), LE32(1), LE32(5),
                       stob(<< 85, 84, 70, 45, 56 >>, 5) >>)     \* "UTF-8"

hasStringLabels(v) == Len(v.labels) > 0 /\ v.spssType = SpssTypeString

longStringValueLabelsPayload(vars) ==
  Concat([i \in 1..Len(vars) |->
            IF hasStringLabels(vars[i])
              THEN LE32(Len(vars[i].shortName)) \o vars[i].shortName
                   \o LE32(vars[i].width) \o LE32(Len(vars[i].labels))
                   \o Concat([j \in 1..Len(vars[i].labels) |->
                                LET l == vars[i].labels[j] IN
                                LE32(Len(l.Value)) \o l.Value
                                \o LE32(Len(l.Desc)) \o l.Desc])
              ELSE <<>>])

longStringValueLabelsRecord(o, vars) ==
  IF ~\E i \in 1..Len(vars) : hasStringLabels(vars[i]) THEN o
  ELSE LET payload == longStringValueLabelsPayload(vars) IN
       Emit(o, "info21", << LE32(7), LE32(21), LE32(1), LE32(Len(payload)), payload >>)

terminationRecord(o) == Emit(o, "term", << LE32(999), LE32(0) >>)

writeInfoRecords(o, vars, nm, order) ==
  LET o1 == valueLabelRecords(o, vars) IN
  IF o1.fatal THEN o1
  ELSE terminationRecord(
         longStringValueLabelsRecord(
           encodingRecord(
             veryLongStringRecord(
               longVarNameRecords(
                 variableDisplayParameterRecord(
                   machineFloatingPointInfoRecord(
                     machineIntegerInfoRecord(o1)),
                   vars),
                 nm, order),
               vars)),
           vars))

(***************************************************************************)
(* AddValueRow and Finish.                                                 *)
(***************************************************************************)
\* writeString with the element count of the declared width
RECURSIVE writeStringDeclaredWidth(_, _, _, _)
writeStringDeclaredWidth(b, v, val, se) ==
  IF se >= v.segments \/ b.panic THEN b
  ELSE LET p == IF Len(val) > 255 THEN SubSeq(val, 1, 255) ELSE val
           rest == IF Len(val) > 255 THEN SubSeqFrom(val, 256) ELSE <<>>
           b1 == WriteString(b, p, elementCount(v.width))
       IN  IF b1.panic \/ b1.err THEN b1
           ELSE writeStringDeclaredWidth(b1, v, rest, se + 1)

\* s.writeString(v, val): the loop over the segments of v
RECURSIVE writeString(_, _, _, _)
writeString(b, v, val, se) ==
  IF se >= v.segments \/ b.panic THEN b
  ELSE LET p == IF Len(val) > 255 THEN SubSeq(val, 1, 255) ELSE val
           rest == IF Len(val) > 255 THEN SubSeqFrom(val, 256) ELSE <<>>
           b1 == WriteString(b, p, elementCount(segmentWidth(v, se)))
       IN  IF b1.panic \/ b1.err THEN b1 ELSE writeString(b1, v, rest, se + 1)

\* the body of AddValueRow's loop for the variable v
writeCell(b, v, values) ==
  IF v.name \notin DOMAIN values
    THEN IF v.spssType = SpssTypeString
           THEN writeString(b, v, <<>>, 0)
           ELSE WriteMissing(b)
  ELSE LET val == values[v.name] IN
       IF v.spssType = SpssTypeString
         THEN writeString(b, v, IF Len(val) > v.width THEN SubSeq(val, 1, v.width)
                                                       ELSE val, 0)
       ELSE IF v.spssType = SpssTypeDate
         THEN LET t == ParseDate(val) IN
              IF ~t.ok THEN WriteMissing(b) ELSE WriteNumber(b, spssTime(t))
       ELSE IF v.spssType = SpssTypeDatetime
         THEN LET t == ParseDatetime(val) IN
              IF ~t.ok THEN WriteMissing(b) ELSE WriteNumber(b, spssTime(t))
       ELSE LET f == ParseFloat(val) IN
            IF ~f.ok THEN WriteMissing(b) ELSE WriteNumber(b, f.f)

\* AddValueRow's loop; cells collects the opcodes pushed for each variable
RECURSIVE writeCells(_, _, _, _)
writeCells(b, vars, values, cells) ==
  IF Len(vars) = 0 \/ b.panic THEN [b |-> b, cells |-> cells]
  ELSE LET next(b1) == writeCells(b1, Tail(vars), values, Append(cells, b1.pushed))
       IN  next(writeCell([b EXCEPT !.pushed = <<>>], Head(vars), values))

Compressor(s, o) ==
  [command |-> s.bc.command, index |-> s.bc.index, data |-> s.bc.data,
   o |-> o, err |-> FALSE, panic |-> FALSE, pushed |-> <<>>]

\* the writer with the compressor state b stored back
WithCompressor(s, b) ==
  [s EXCEPT !.bc = [command |-> b.command, index |-> b.index, data |-> b.data],
            !.o = b.o]

AddValueRowOn(s, values, order) ==
  LET rowsOf(r) ==
        IF r.b.panic THEN [WithCompressor(s, r.b) EXCEPT !.ret = "panic",
                                                         !.cells = r.cells]
        ELSE [WithCompressor(s, r.b) EXCEPT !.valCount = s.valCount + 1,
                                            !.ret = "nil", !.cells = r.cells]
      after(o1) ==
        IF o1.fatal THEN [s EXCEPT !.o = o1, !.ret = "panic"]
        ELSE rowsOf(writeCells(Compressor(s, o1), s.variables, values, <<>>))
  IN  after(IF s.valCount = 0
              THEN writeInfoRecords(s.o, s.variables, s.names, order)
              ELSE s.o)

\* Seek that leaves the position of the file where it is
SeekNowhere(o, offset) == o

\* s.seeker.Seek(80, 0)
Seek(o, offset) == IF o.ok THEN [o EXCEPT !.pos = offset] ELSE o

NCasesOffset == 80

updateHeaderNCasesAtCaseSize(s) ==
  LET b == Flush(Compressor(s, s.o))
      o1 == bufioFlush(b.o)
      o2 == Seek(o1, 68)
  IN  [WithCompressor(s, b) EXCEPT !.o = FileWrite(o2, LE32(s.valCount))]

updateHeaderNCases(s) ==
  LET b == Flush(Compressor(s, s.o))
      o1 == bufioFlush(b.o)
      o2 == Seek(o1, NCasesOffset)
  IN  [WithCompressor(s, b) EXCEPT !.o = FileWrite(o2, LE32(s.valCount))]

FinishOn(s) ==
  LET s1 == updateHeaderNCases(s) IN
  [s1 EXCEPT !.o = bufioFlush(s1.o), !.ret = "none"]

(***************************************************************************)
(* The calls of the model: the variables handed to AddVariable and the     *)
(* texts handed to AddValueRow.                                            *)
(***************************************************************************)
Label(value, desc) == [Value |-> value, Desc |-> desc]

Variable(name, shortName, type, measure, decimal, width, label, labels) ==
  [Name |-> name, ShortName |-> shortName, Type |-> type, Measure |-> measure,
   Decimal |-> decimal, Width |-> width, Label |-> label, Labels |-> labels]

nameAb == << 97, 98 >>                                        \* "ab"
nameAB == << 65, 66 >>                                        \* "AB"
nameLong == << 97, 98, 99, 100, 101, 102, 103, 104, 105 >>    \* "abcdefghi"
nameLong2 == << 97, 98, 99, 100, 101, 102, 103, 104, 106 >>   \* "abcdefghj"
nameCd == << 99, 100 >>                                       \* "cd"
nameEf == << 101, 102 >>                                      \* "ef"
nameGh == << 103, 104 >>                                      \* "gh"
nameIj == << 105, 106 >>                                      \* "ij"
shortQ1 == << 81, 49 >>                                       \* "Q1"

textLab == << 76, 97, 98 >>                                   \* "Lab"
textYes == << 89, 101, 115 >>                                 \* "Yes"
textNo == << 78, 111 >>                                       \* "No"
text1 == << 49 >>                                             \* "1"
text2 == << 50 >>                                             \* "2"
text42 == << 52, 50 >>                                        \* "42"
textHalf == << 48, 46, 53 >>                                  \* "0.5"
textFoo == << 102, 111, 111 >>                                \* "foo"
textHello == << 104, 101, 108, 108, 111, 32, 119, 111, 114 >> \* "hello wor"
textA300 == Rep(65, 300)                                      \* "AA...A", 300 bytes

ValidInputs ==
  { Variable(nameAb, <<>>, SpssTypeNumeric, SpssMeasureScale, 3, 0, <<>>, <<>>),
    Variable(nameAB, <<>>, SpssTypeString, SpssMeasureNominal, 0, 0, <<>>, <<>>),
    Variable(nameLong, <<>>, SpssTypeNumeric, SpssMeasureOrdinal, 2, 8, textLab,
             << Label(text1, textYes), Label(text2, textNo) >>),
    Variable(nameLong2, <<>>, SpssTypeDate, SpssMeasureScale, 5, 0, <<>>,
             << Label(date14Oct1582, Rep(66, 121)),
                Label(text1, SubSeq(textHello, 1, 7)) >>),
    Variable(nameCd, shortQ1, SpssTypeString, SpssMeasureNominal, 0, 9, <<>>,
             << Label(textHello, textYes) >>),
    Variable(nameGh, <<>>, SpssTypeString, SpssMeasureNominal, 0, 300, <<>>, <<>>),
    Variable(nameIj, <<>>, SpssTypeString, SpssMeasureNominal, 0, 600, <<>>, <<>>),
    Variable(nameEf, shortQ1, SpssTypeDatetime, SpssMeasureScale, 0, 0, <<>>, <<>>) }

Numeric(name, decimal, width) ==
  Variable(name, <<>>, SpssTypeNumeric, SpssMeasureScale, decimal, width, <<>>, <<>>)

InvalidInputs ==
  { Numeric(<<>>, 0, 0),                      \* empty name
    Numeric(Rep(97, 65), 0, 0),               \* 65 bytes
    Numeric(<< 97, 46 >>, 0, 0),              \* "a."
    Numeric(<< 88 >>, 0, 0),                  \* "X"
    Numeric(nameIj, 17, 0),
    Numeric(nameIj, -1, 0),
    Numeric(nameIj, 0, -1),
    Numeric(nameIj, 0, 41),
    Numeric(nameIj, 2, 2) }

VarInputs == ValidInputs \cup InvalidInputs

\* the texts a row may give for a variable of a type
TextsOf(type) ==
  IF type = SpssTypeString THEN {textHello, textA300}
  ELSE IF type = SpssTypeDate THEN {date14Oct1582, textFoo}
  ELSE IF type = SpssTypeDatetime THEN {date14Oct1582 \o time000001, date14Oct1582}
  ELSE {text42, textHalf, textFoo}

\* the rows over the variables vars: any subset of their names as keys
RowInputs(vars) ==
  LET nameSet == {vars[i].name : i \in 1..Len(vars)}
      texts(n) == UNION {TextsOf(vars[i].spssType) : i \in {j \in 1..Len(vars) : vars[j].name = n}}
      all == UNION {texts(n) : n \in nameSet}
  IN  UNION {{f \in [D -> all] : \A n \in D : f[n] \in texts(n)} : D \in SUBSET nameSet}

\* the orders in which a map iteration may visit the keys of nm
Orders(nm) ==
  LET D == DOMAIN nm
      n == Cardinality(D)
  IN  {ord \in [1..n -> D] : \A i, j \in 1..n : ord[i] = ord[j] => i = j}

(***************************************************************************)
(* The state.                                                              *)
(***************************************************************************)
VARIABLES
  pc,         \* "open", "finished" (Finish was called) or "panicked"
  names,      \* SpssWriter.names, short name -> long name
  variables,  \* SpssWriter.variables
  index,      \* SpssWriter.index
  valCount,   \* SpssWriter.valCount
  bytecode,   \* SpssWriter.bytecode: command, index, data
  buf,        \* the bytes buffered in SpssWriter.Writer
  werr,       \* the sticky error of SpssWriter.Writer
  file,       \* the bytes of the sink, SpssWriter.seeker
  pos,        \* the write offset of the sink
  sinkOk,     \* the sink accepts writes and seeks
  log,        \* history: kind and length of the records written
  ret,        \* the result of the last call
  lastOp,     \* the last call
  cells,      \* history: the opcodes pushed by the last AddValueRow
  rows        \* history: the AddValueRow calls, their values and results

vars == << pc, names, variables, index, valCount, bytecode, buf, werr, file,
           pos, sinkOk, log, ret, lastOp, cells, rows >>

\* the writer state held by the variables
W ==
  [names |-> names, variables |-> variables, index |-> index,
   valCount |-> valCount, bc |-> bytecode,
   o |-> [buf |-> buf, werr |-> werr, file |-> file, pos |-> pos,
          ok |-> sinkOk, log |-> log, fatal |-> FALSE],
   ret |-> ret, cells |-> cells]

Store(s) ==
  /\ names' = s.names
  /\ variables' = s.variables
  /\ index' = s.index
  /\ valCount' = s.valCount
  /\ bytecode' = s.bc
  /\ buf' = s.o.buf
  /\ werr' = s.o.werr
  /\ file' = s.o.file
  /\ pos' = s.o.pos
  /\ log' = s.o.log
  /\ ret' = s.ret
  /\ cells' = s.cells

\* NewSpssWriter
NewSpssWriter ==
  [names |-> << >>, variables |-> << >>, index |-> 1, valCount |-> 0,
   bc |-> [command |-> Rep(0, 8), index |-> 0, data |-> << >>],
   o |-> headerRecord([buf |-> << >>, werr |-> FALSE, file |-> << >>, pos |-> 0,
                       ok |-> TRUE, log |-> << >>, fatal |-> FALSE], << >>),
   ret |-> "nil", cells |-> << >>]

Init ==
  /\ pc = "open"
  /\ names = NewSpssWriter.names
  /\ variables = NewSpssWriter.variables
  /\ index = NewSpssWriter.index
  /\ valCount = NewSpssWriter.valCount
  /\ bytecode = NewSpssWriter.bc
  /\ buf = NewSpssWriter.o.buf
  /\ werr = NewSpssWriter.o.werr
  /\ file = NewSpssWriter.o.file
  /\ pos = NewSpssWriter.o.pos
  /\ log = NewSpssWriter.o.log
  /\ ret = NewSpssWriter.ret
  /\ cells = NewSpssWriter.cells
  /\ sinkOk = TRUE
  /\ lastOp = "NewSpssWriter"
  /\ rows = << >>

AddVariable ==
  /\ pc = "open"
  /\ Len(variables) < MaxVars
  /\ \E V \in VarInputs :
       LET done(s) ==
             /\ Store(s)
             /\ pc' = IF s.ret = "panic" THEN "panicked" ELSE pc
       IN  done(AddVariableOn(W, V))
  /\ lastOp' = "AddVariable"
  /\ UNCHANGED << sinkOk, rows >>

AddValueRow ==
  /\ pc = "open"
  /\ Len(rows) < MaxRows
  /\ \E values \in RowInputs(variables), order \in Orders(names) :
       LET done(s) ==
             /\ Store(s)
             /\ pc' = IF s.ret = "panic" THEN "panicked" ELSE pc
             /\ rows' = Append(rows, [values |-> values, ret |-> s.ret])
       IN  done(AddValueRowOn(W, values, order))
  /\ lastOp' = "AddValueRow"
  /\ UNCHANGED sinkOk

Finish ==
  /\ pc = "open"
  /\ Store(FinishOn(W))
  /\ pc' = "finished"
  /\ lastOp' = "Finish"
  /\ UNCHANGED << sinkOk, rows >>

\* the sink starts to fail: every later write and seek returns an error
SinkFails ==
  /\ pc = "open"
  /\ sinkOk
  /\ sinkOk' = FALSE
  /\ UNCHANGED << pc, names, variables, index, valCount, bytecode, buf, werr,
                  file, pos, log, ret, lastOp, cells, rows >>

Next == AddVariable \/ AddValueRow \/ Finish

Spec == Init /\ [][Next]_vars

NextIO == AddVariable \/ AddValueRow \/ Finish \/ SinkFails

SpecIO == Init /\ [][NextIO]_vars

(***************************************************************************)
(* The bytecode compressor on its own: a bytecodeWriter over an empty      *)
(* output, and its operations called in any order.  Here cells holds one   *)
(* entry per operation, the opcodes it pushed.                             *)
(***************************************************************************)
\* operations per run
MaxOps == 4
\* the largest elements argument of WriteString
MaxElements == 3

\* the numbers handed to WriteNumber: -99, 0, 151, -100, 152, 0.5, NaN
NumberInputs == {Fl(-198), Fl(0), Fl(302), Fl(-200), Fl(304), Fl(1), NaN}

\* the texts handed to WriteString: "", "hello wor", 8 spaces and "A"
StringInputs == {<< >>, textHello, Spaces8 \o << 65 >>}

\* newBytecodeWriter(w, 100.0) over a new bufio.Writer
InitBC ==
  /\ pc = "open"
  /\ names = << >>
  /\ variables = << >>
  /\ index = 1
  /\ valCount = 0
  /\ bytecode = [command |-> Rep(0, 8), index |-> 0, data |-> << >>]
  /\ buf = << >>
  /\ werr = FALSE
  /\ file = << >>
  /\ pos = 0
  /\ sinkOk = TRUE
  /\ log = << >>
  /\ ret = "nil"
  /\ lastOp = "newBytecodeWriter"
  /\ cells = << >>
  /\ rows = << >>

\* the step is the operation op of the compressor, which leaves it as b
CompressorCall(op, b) ==
  /\ pc = "open"
  /\ Len(cells) < MaxOps
  /\ lastOp' = op
  /\ bytecode' = [command |-> b.command, index |-> b.index, data |-> b.data]
  /\ buf' = b.o.buf
  /\ werr' = b.o.werr
  /\ file' = b.o.file
  /\ pos' = b.o.pos
  /\ log' = b.o.log
  /\ cells' = Append(cells, b.pushed)
  /\ ret' = IF b.panic THEN "panic" ELSE IF b.err THEN "error" ELSE "nil"
  /\ pc' = IF b.panic THEN "panicked" ELSE pc
  /\ UNCHANGED << names, variables, index, valCount, sinkOk, rows >>

WriteMissingCall == CompressorCall("WriteMissing", WriteMissing(Compressor(W, W.o)))

WriteNumberCall(f) == CompressorCall("WriteNumber", WriteNumber(Compressor(W, W.o), f))

WriteStringCall(val, elements) ==
  CompressorCall("WriteString", WriteString(Compressor(W, W.o), val, elements))

FlushCall == CompressorCall("Flush", Flush(Compressor(W, W.o)))

NextBC ==
  \/ WriteMissingCall
  \/ \E f \in NumberInputs : WriteNumberCall(f)
  \/ \E val \in StringInputs, elements \in 0..MaxElements :
       WriteStringCall(val, elements)
  \/ FlushCall

SpecBC == InitBC /\ [][NextBC]_vars

(***************************************************************************)
(* Properties.                                                             *)
(***************************************************************************)
\* the number of AddValueRow calls that returned nil
okRows == Cardinality({i \in 1..Len(rows) : rows[i].ret = "nil"})

\* everything written so far, in the sink or still in the buffer
Output == file \o buf

VariableKinds == {"var", "cont"}
PrologueKinds == {"labels", "labelvars", "info3", "info4", "info11", "info13",
                  "info14", "info20", "info21", "term"}

KindIndices(kinds) == {i \in 1..Len(log) : log[i].kind \in kinds}
KindCount(kind) == Cardinality(KindIndices({kind}))

\* the number of type-2 records written
VarRecords == Cardinality(KindIndices(VariableKinds))

\* C1: after Finish the four bytes at offsets 80..83 of the sink decode,
\* little endian, as the number of AddValueRow calls that returned nil;
\* until Finish they hold -1.
C1_CaseCountAtOffset80 ==
  /\ pc = "finished" => I32At(file, 80) = okRows
  /\ pc = "open" => I32At(Output, 80) = -1

C1_Witness == pc = "finished" /\ okRows = MaxRows /\ Len(variables) >= 1

\* C2: in the finished file the nominal_case_size field of the header (the
\* int32 at offset 68) is the number of 8-byte elements of a case, the sum
\* over the variables and their segments of ceil(segment width / 8).
C2_NominalCaseSize == pc = "finished" => I32At(file, 68) = caseSize(variables)

\* C3: once an AddValueRow has been performed no step adds a variable,
\* changes the next column index or writes a variable record.
C3_SchemaClosedByFirstRow ==
  [][Len(rows) >= 1 =>
       /\ variables' = variables
       /\ index' = index
       /\ VarRecords' = VarRecords]_vars

\* the place of a record kind in the first-row prologue
PrologueRank(kind) ==
  CASE kind \in {"labels", "labelvars"} -> 0
    [] kind = "info3" -> 1
    [] kind = "info4" -> 2
    [] kind = "info11" -> 3
    [] kind = "info13" -> 4
    [] kind = "info14" -> 5
    [] kind = "info20" -> 6
    [] kind = "info21" -> 7
    [] kind = "term" -> 8

\* C4: the first-row prologue is written exactly once, on the first
\* AddValueRow, as value-label records, info records 3, 4, 11, 13, 14, 20,
\* 21 and the termination record in this order (14 and 21 only when they
\* apply); every variable record precedes it and every command group of
\* the case stream follows the termination record.
C4_PrologueOnceAndInOrder ==
  LET P == KindIndices(PrologueKinds)
      once == IF Len(rows) >= 1 THEN 1 ELSE 0
  IN  /\ \A k \in {"info3", "info4", "info11", "info13", "info20", "term"} :
           KindCount(k) = once
      /\ KindCount("info14")
           = (IF once = 1 /\ \E i \in 1..Len(variables) : variables[i].segments > 1
                THEN 1 ELSE 0)
      /\ KindCount("info21")
           = (IF once = 1 /\ \E i \in 1..Len(variables) : hasStringLabels(variables[i])
                THEN 1 ELSE 0)
      /\ \A i, j \in P :
           i < j => /\ PrologueRank(log[i].kind) <= PrologueRank(log[j].kind)
                    /\ PrologueRank(log[i].kind) = PrologueRank(log[j].kind)
                         => PrologueRank(log[i].kind) = 0
                    /\ \A m \in i..j : m \in P
      /\ \A v \in KindIndices(VariableKinds) : \A i \in P : v < i
      /\ \A g \in KindIndices({"group"}) : \A t \in KindIndices({"term"}) : t < g

\* C5: no two variables of the writer have the same short name, and the
\* name map holds one entry per variable.
C5_ShortNamesUnique ==
  /\ \A i, j \in 1..Len(variables) :
       i # j => variables[i].shortName # variables[j].shortName
  /\ Cardinality(DOMAIN names) = Len(variables)

\* the step is the call AddVariable(V)
AddVariableCall(V) ==
  /\ pc = "open"
  /\ lastOp' = "AddVariable"
  /\ Store(AddVariableOn(W, V))

\* C6: AddVariable with the long name of a variable accepted before returns
\* an error and adds nothing.
C6_DuplicateNameRejected ==
  [][\A V \in VarInputs :
       (AddVariableCall(V) /\ \E i \in 1..Len(variables) : variables[i].name = V.Name)
       => /\ ret' = "error"
          /\ UNCHANGED << names, variables, index, log >>]_vars

\* C7: an AddVariable that returns a validation error leaves the variable
\* list, the name map and the next column index as they were and writes no
\* byte.
C7_RejectedVariableChangesNothing ==
  [][(lastOp' = "AddVariable" /\ ret' = "error")
       => UNCHANGED << names, variables, index, valCount, bytecode, buf, werr,
                       file, pos, log >>]_vars

C7_Witness ==
  /\ lastOp = "AddVariable"
  /\ ret = "error"
  /\ Len(variables) = 1
  /\ Len(rows) = 0

\* the system-missing value, -DBL_MAX
SysMis == NegMaxFloat64Bytes

\* the cells of the opcodes ops[k..8], whose payloads start payload: the
\* result is [elems, rest]
RECURSIVE DecodeOps(_, _, _)
DecodeOps(ops, k, payload) ==
  IF k > 8 THEN [elems |-> << >>, rest |-> payload]
  ELSE LET op == ops[k]
           literal == op = 253
           next == DecodeOps(ops, k + 1,
                             IF literal THEN SubSeqFrom(payload, 9) ELSE payload)
           elem == IF op >= 1 /\ op <= 251 THEN << F64(Fl(2 * (op - Bias))) >>
                   ELSE IF literal THEN << SubSeq(payload, 1, 8) >>
                   ELSE IF op = 254 THEN << Spaces8 >>
                   ELSE IF op = 255 THEN << SysMis >>
                   ELSE << >>
       IN  [elems |-> elem \o next.elems, rest |-> next.rest]

\* the 8-byte cells that a reader decodes from a compressed case stream
RECURSIVE DecodeStream(_)
DecodeStream(bytes) ==
  IF Len(bytes) < 8 THEN << >>
  ELSE LET r == DecodeOps(SubSeq(bytes, 1, 8), 1, SubSeqFrom(bytes, 9))
       IN  r.elems \o DecodeStream(r.rest)

RECURSIVE LogLength(_, _, _)
LogLength(kinds, lo, hi) ==
  IF lo > hi THEN 0
  ELSE IF lo = hi THEN (IF log[lo].kind \in kinds THEN log[lo].len ELSE 0)
  ELSE LET mid == (lo + hi) \div 2
       IN  LogLength(kinds, lo, mid) + LogLength(kinds, mid + 1, hi)

\* the case stream of the file: what follows the dictionary
CaseStream ==
  SubSeqFrom(file, LogLength({"header"} \cup VariableKinds \cup PrologueKinds,
                             1, Len(log)) + 1)

\* a variable record was written after the first-row prologue
LateVariable ==
  \E v \in KindIndices(VariableKinds) : \E i \in KindIndices(PrologueKinds) : i < v

\* the text of a cell does not parse as a value of the type of v
ParseFails(v, val) ==
  IF v.spssType = SpssTypeDate THEN ~ParseDate(val).ok
  ELSE IF v.spssType = SpssTypeDatetime THEN ~ParseDatetime(val).ok
  ELSE ~ParseFloat(val).ok

\* the number a cell's text stands for
ParsedNumber(v, val) ==
  IF v.spssType = SpssTypeDate THEN spssTime(ParseDate(val))
  ELSE IF v.spssType = SpssTypeDatetime THEN spssTime(ParseDatetime(val))
  ELSE ParseFloat(val).f

\* the decoded cells elems hold the row values for the variable v
CellHolds(v, values, elems) ==
  LET absent == v.name \notin DOMAIN values IN
  IF v.spssType = SpssTypeString
    THEN LET text == IF absent THEN << >> ELSE trim(values[v.name], v.width)
             bytes == Concat(elems)
         IN  Len(text) <= Len(bytes) /\ bytes = stob(text, Len(bytes))
    ELSE elems = << IF absent \/ ParseFails(v, values[v.name]) THEN SysMis
                    ELSE F64(ParsedNumber(v, values[v.name])) >>

\* C8: the compressed case stream of the finished file decodes to the rows
\* in AddValueRow order, each with one cell per variable in declaration
\* order: the parsed number of a numeric cell, the text of a String cell
\* truncated to the declared width and padded with spaces.
C8_CaseStreamReproducesRows ==
  (pc = "finished" /\ ~LateVariable) =>
    LET elems == DecodeStream(CaseStream)
        size == caseSize(variables)
    IN  /\ Len(elems) = Len(rows) * size
        /\ \A r \in 1..Len(rows) : \A i \in 1..Len(variables) :
             LET off == (r - 1) * size + caseSize(SubSeq(variables, 1, i - 1))
             IN  CellHolds(variables[i], rows[r].values,
                           SubSeq(elems, off + 1, off + elementsOf(variables[i], 0)))

LastValues == rows[Len(rows)].values

\* C9: in AddValueRow a non-String variable whose key is absent or whose
\* text does not parse gets exactly one opcode 255, a String variable whose
\* key is absent gets an all-space string; the call returns nil and counts
\* the row.
C9_MissingCells ==
  /\ valCount = okRows
  /\ lastOp = "AddValueRow" =>
       /\ ret = "nil"
       /\ valCount = Len(rows)
       /\ \A i \in 1..Len(variables) :
            LET v == variables[i]
                absent == v.name \notin DOMAIN LastValues
            IN  /\ (v.spssType # SpssTypeString
                    /\ (absent \/ ParseFails(v, LastValues[v.name])))
                     => cells[i] = << 255 >>
                /\ (v.spssType = SpssTypeString /\ absent)
                     => /\ Len(cells[i]) = elementCount(segmentWidth(v, 0))
                        /\ \A k \in 1..Len(cells[i]) : cells[i][k] = 254

C9_Witness ==
  /\ lastOp = "AddValueRow"
  /\ Len(rows) = 2
  /\ \E i, j \in 1..Len(variables) :
       /\ variables[i].spssType = SpssTypeNumeric
       /\ variables[i].name \in DOMAIN LastValues
       /\ ParseFails(variables[i], LastValues[variables[i].name])
       /\ variables[j].spssType # SpssTypeString
       /\ variables[j].name \notin DOMAIN LastValues

\* a write or a seek on the sink failed in the step
SinkFailedInStep ==
  \/ ~werr /\ werr'
  \/ pc = "open" /\ pc' = "finished" /\ ~sinkOk

\* C10: a call during which a write or a seek on the sink fails returns
\* the error; an AddValueRow with a failed write is not counted.
C10_SinkErrorsReported ==
  [][SinkFailedInStep => (ret' = "error" /\ valCount' = valCount)]_vars

\* C11: every finished file holds the info records and the termination
\* record, also without rows: for one Numeric variable and no AddValueRow
\* the finished output is the header with ncases = 0, one variable record,
\* the info records, the termination record and then only the zero-padded
\* command group of Flush.
C11_FinishedFileHasPrologue ==
  pc = "finished" =>
    /\ \A k \in {"info3", "info4", "info11", "info13", "info20", "term"} :
         KindCount(k) = 1
    /\ (Len(rows) = 0 /\ Len(variables) = 1
        /\ variables[1].spssType = SpssTypeNumeric) =>
         /\ I32At(file, NCasesOffset) = 0
         /\ VarRecords = 1
         /\ KindCount("group") = 1
         /\ log[Len(log)] = [kind |-> "group", len |-> 8]
         /\ SubSeqFrom(file, Len(file) - 7) = Rep(0, 8)

AllKinds == {"header", "group"} \cup VariableKinds \cup PrologueKinds

\* the bytes of the i-th record written
RecordAt(i) ==
  LET off == LogLength(AllKinds, 1, i - 1)
  IN  SubSeq(Output, off + 1, off + log[i].len)

\* C12: a String variable without value labels whose width exceeds 255 is
\* split into more than one segment of at most 252 bytes each, no variable
\* record carries a width above 255, it has one variable record per 8-byte
\* element, and the prologue holds an info record of subtype 14.
C12_VeryLongStringSegments ==
  /\ \A i \in KindIndices({"var"}) : I32At(RecordAt(i), 4) <= 255
  /\ \A i \in 1..Len(variables) :
       LET v == variables[i] IN
       (v.spssType = SpssTypeString /\ Len(v.labels) = 0 /\ v.width > 255) =>
         /\ v.segments > 1
         /\ \A se \in 0..(v.segments - 1) : segmentWidth(v, se) <= 252
         /\ (Len(variables) = 1 => VarRecords = elementCount(v.width))
         /\ (Len(rows) >= 1 /\ ~LateVariable) => KindCount("info14") = 1

\* the pieces of bytes between the separators sep
RECURSIVE SplitOn(_, _, _)
SplitOn(bytes, sep, piece) ==
  IF Len(bytes) = 0 THEN << piece >>
  ELSE IF Head(bytes) = sep THEN << piece >> \o SplitOn(Tail(bytes), sep, << >>)
  ELSE SplitOn(Tail(bytes), sep, Append(piece, Head(bytes)))

\* the payload of the subtype-13 record lists SHORT=LONG for every variable
\* whose names differ, with single 0x09 separators and its length as count
LongNamesListed ==
  \A i \in KindIndices({"info13"}) :
    LET rec == RecordAt(i)
        payload == SubSeqFrom(rec, 17)
        entries == SplitOn(payload, 9, << >>)
    IN  /\ I32At(rec, 12) = Len(payload)
        /\ Len(payload) > 0 => \A k \in 1..Len(entries) : Len(entries[k]) > 0
        /\ \A j \in 1..Len(variables) :
             variables[j].name # variables[j].shortName =>
               \E k \in 1..Len(entries) :
                 entries[k] = variables[j].shortName \o << 61 >> \o variables[j].name

\* C13: the subtype-13 record written at the first AddValueRow holds the
\* entry SHORT=LONG of every accepted variable whose long name differs from
\* its short name; the entries are separated by single 0x09 bytes, none
\* trails, and the count field is the length of the payload.
C13_LongNameRecord ==
  Len(rows) >= 1 => (KindCount("info13") = 1 /\ LongNamesListed)

\* C14: every accepted variable is stored with 0 <= decimal <= 16,
\* 1 <= width <= 32767, width > decimal, and width <= 40 unless it is a
\* String; a declared width of 0 is replaced by the default (Numeric
\* 8 + decimal; Date 11, Datetime 20, String 40, each with decimal 0); a
\* declaration out of these bounds is rejected with an error.
C14_WidthAndDecimalBounds ==
  [][LET StoredInBounds(v) ==
           /\ 0 <= v.decimal /\ v.decimal <= 16
           /\ 1 <= v.width /\ v.width <= 32767
           /\ v.width > v.decimal
           /\ v.spssType # SpssTypeString => v.width <= 40
         OutOfBounds(V) ==
           \/ V.Decimal < 0 \/ V.Decimal > 16
           \/ V.Width < 0 \/ V.Width > 32767
           \/ V.Type # SpssTypeString /\ V.Width > 40
           \/ V.Width # 0 /\ V.Width <= V.Decimal
     IN  /\ \A i \in 1..Len(variables') : StoredInBounds(variables'[i])
         /\ \A V \in VarInputs :
              AddVariableCall(V) =>
                /\ OutOfBounds(V) => ret' = "error"
                /\ ret' = "nil" =>
                     LET v == variables'[Len(variables')]
                         numeric == V.Type = SpssTypeNumeric
                     IN  /\ Len(variables') = Len(variables) + 1
                         /\ v.spssType = V.Type
                         /\ v.width = (IF V.Width # 0 THEN V.Width
                                       ELSE IF numeric THEN 8 + V.Decimal
                                       ELSE IF V.Type = SpssTypeDate THEN 11
                                       ELSE IF V.Type = SpssTypeDatetime THEN 20
                                       ELSE 40)
                         /\ v.decimal = (IF V.Width # 0 \/ numeric THEN V.Decimal
                                         ELSE 0)]_vars

C14_Witness ==
  /\ lastOp = "AddVariable" /\ ret = "nil"
  /\ \E i, j \in 1..Len(variables) :
       /\ variables[i].spssType = SpssTypeNumeric
       /\ variables[i].decimal = 3 /\ variables[i].width = 11
       /\ variables[j].spssType = SpssTypeDate
       /\ variables[j].decimal = 0 /\ variables[j].width = 11

\* the payload bytes of the compressor so far: those of the groups written
\* and those in the data buffer
Payloads ==
  Concat([i \in 1..Len(log) |-> SubSeqFrom(RecordAt(i), 9)]) \o bytecode.data

\* C15: between the operations of the compressor, in any order, the cursor
\* is in 0..7 and the data buffer holds 8 bytes per opcode 253 of the
\* current partial group; the bytes sent to the sink are complete groups,
\* each 8 opcodes followed by the 8-byte payloads of its opcodes 253, in
\* push order; after Flush the cursor is 0, the data buffer is empty and
\* every opcode pushed so far is in the sink.
C15_CompressorGroups ==
  [][LET Count253(ops) == Cardinality({k \in 1..Len(ops) : ops[k] = 253})
         Pushed(ops) == SelectSeq(ops, LAMBDA c : c # 0)
         sunk == Concat([i \in 1..Len(log) |-> SubSeq(RecordAt(i), 1, 8)])
         partial == SubSeq(bytecode.command, 1, bytecode.index)
         between ==
           /\ bytecode.index \in 0..7
           /\ Len(bytecode.data) = 8 * Count253(partial)
           /\ \A i \in 1..Len(log) :
                /\ log[i].kind = "group"
                /\ log[i].len = 8 + 8 * Count253(SubSeq(RecordAt(i), 1, 8))
           /\ Len(Output) = LogLength(AllKinds, 1, Len(log))
           /\ Pushed(sunk \o partial) = Concat(cells)
           /\ lastOp = "Flush" =>
                /\ bytecode.index = 0
                /\ Len(bytecode.data) = 0
                /\ Pushed(sunk) = Concat(cells)
     IN  /\ between
         /\ between'
         /\ Len(Payloads) <= Len(Payloads')
         /\ SubSeq(Payloads', 1, Len(Payloads)) = Payloads]_vars

C15_Witness ==
  /\ lastOp = "Flush"
  /\ KindCount("group") = 2
  /\ \E i \in 1..Len(log) : log[i].len > 8
  /\ \E k \in 1..Len(cells) : Len(cells[k]) = 0 /\ k < Len(cells)

\* C16: WriteNumber(f) pushes exactly one opcode: i with no payload when
\* f + 100 is an integer i in 1..251, and otherwise (-100, 152, 0.5 and NaN
\* included) 253 with exactly 8 payload bytes, the float64 f.
C16_WriteNumberOpcode ==
  [][\A f \in NumberInputs :
       WriteNumberCall(f) =>
         LET pushed == cells'[Len(cells')]
             whole == ~f.nan /\ f.h % 2 = 0
             i == (f.h \div 2) + 100
         IN  IF whole /\ 1 <= i /\ i <= 251
               THEN pushed = << i >> /\ Payloads' = Payloads
               ELSE pushed = << 253 >> /\ Payloads' = Payloads \o F64(f)
                    /\ Len(Payloads') = Len(Payloads) + 8]_vars

C16_Witness ==
  /\ lastOp = "WriteNumber"
  /\ cells = << << 1 >>, << 253 >>, << 251 >>, << 253 >> >>
  /\ Len(Payloads) = 16

\* C17: WriteString(val, elements) pushes exactly elements opcodes; the
\* k-th describes bytes 8k..8k+7 of val padded with spaces: 254 without
\* payload when they are all spaces (so for every element of an empty
\* string), else 253 followed by exactly those 8 bytes; the bytes of val
\* past 8 * elements are dropped.
C17_WriteStringOpcodes ==
  [][\A val \in StringInputs, elements \in 0..MaxElements :
       WriteStringCall(val, elements) =>
         LET pushed == cells'[Len(cells')]
             padded == stob(val, 8 * elements)
             chunk(k) == SubSeq(padded, 8 * k + 1, 8 * k + 8)
         IN  /\ Len(pushed) = elements
             /\ \A k \in 0..(elements - 1) :
                  pushed[k + 1] = (IF chunk(k) = Spaces8 THEN 254 ELSE 253)
             /\ Payloads' = Payloads
                  \o Concat([k \in 1..elements |->
                               IF chunk(k - 1) = Spaces8 THEN << >> ELSE chunk(k - 1)])]_vars

C17_Witness ==
  /\ lastOp = "WriteString"
  /\ Len(cells) = 3
  /\ cells[1] = << 253 >>
  /\ cells[2] = << 254, 254 >>
  /\ cells[3] = << 254, 253, 254 >>

\* C18: the column index of each variable is 1 plus the number of 8-byte
\* elements, ceil(segment width / 8) per String segment and 1 per numeric
\* segment, of the variables before it; the next index of the writer is 1
\* plus the number of type-2 records written (primary and continuation);
\* the indices never decrease.
C18_ColumnIndices ==
  [][LET elems(v) ==
           IF v.spssType = SpssTypeString
             THEN (segmentWidth(v, 0) + 7) \div 8
             ELSE 1
         before[k \in 0..Len(variables')] ==
           IF k = 0 THEN 0 ELSE before[k - 1] + elems(variables'[k])
     IN  /\ \A i \in 1..Len(variables') : variables'[i].index = 1 + before[i - 1]
         /\ \A i, j \in 1..Len(variables') :
              i < j => variables'[i].index < variables'[j].index
         /\ index' = 1 + VarRecords'
         /\ index' = 1 + before[Len(variables')]
         /\ index' >= index]_vars

C18_Witness ==
  /\ Len(variables) = 2
  /\ variables[1].spssType = SpssTypeString /\ Len(variables[1].labels) > 0
  /\ variables[2].spssType = SpssTypeNumeric
  /\ variables[2].index = 6
  /\ index = 7

\* C19: when no short name is supplied, AddVariable derives it as the
\* upper-cased first 8 bytes of the long name and, while the candidate is
\* in the name map, overwrites its end with the counter 1, 2, 3, ...; in
\* every state of the name map the derivation completes with a name of at
\* most 8 bytes that was not in the map before.
C19_ShortNameDerivation ==
  [][\A V \in VarInputs :
       (AddVariableCall(V) /\ Len(V.ShortName) = 0 /\ ret' # "error") =>
         /\ ret' = "nil"
         /\ Len(variables') = Len(variables) + 1
         /\ LET short == variables'[Len(variables')].shortName
                first == ToUpper(trim(V.Name, 8))
            IN  /\ Len(short) <= 8
                /\ short \notin DOMAIN names
                /\ DOMAIN names' = DOMAIN names \cup {short}
                /\ names'[short] = V.Name
                /\ first \notin DOMAIN names => short = first
                /\ (first \in DOMAIN names /\ Len(first) = 8) =>
                     SubSeq(short, 1, 7) = SubSeq(first, 1, 7)]_vars


\* C20: once the prologue is written, every non-String variable with k >= 1
\* value labels, and no other variable, has a type-3 record with n_labels = k
\* whose entries are an 8-byte value, a length byte min(len(desc), 120), that
\* many label bytes and spaces making 1 + label_len a multiple of 8, followed
\* at once by a type-4 record with var_count = 1 and the variable's index.
C20_ValueLabelRecords ==
  LET labelled == {j \in 1..Len(variables) :
                     /\ Len(variables[j].labels) >= 1
                     /\ variables[j].spssType # SpssTypeString}
      len(label) == IF Len(label.Desc) > 120 THEN 120 ELSE Len(label.Desc)
      pad(label) == CHOOSE p \in 0..7 : (1 + len(label) + p) % 8 = 0
      size(label) == 8 + 1 + len(label) + pad(label)
      Entries(rec, labels) ==
        LET start[n \in 0..Len(labels)] ==
              IF n = 0 THEN 8 ELSE start[n - 1] + size(labels[n])
        IN  /\ Len(rec) = start[Len(labels)]
            /\ \A n \in 1..Len(labels) :
                 LET at == start[n - 1] + 8
                     l == len(labels[n])
                 IN  /\ rec[at + 1] = l
                     /\ SubSeq(rec, at + 2, at + 1 + l) = SubSeq(labels[n].Desc, 1, l)
                     /\ SubSeq(rec, at + 2 + l, start[n]) = Rep(SP, pad(labels[n]))
      RecordsOf(i, j) ==
        /\ I32At(RecordAt(i), 0) = 3
        /\ I32At(RecordAt(i), 4) = Len(variables[j].labels)
        /\ Entries(RecordAt(i), variables[j].labels)
        /\ i < Len(log)
        /\ log[i + 1].kind = "labelvars"
        /\ RecordAt(i + 1) = LE32(4) \o LE32(1) \o LE32(variables[j].index)
  IN  KindCount("info3") >= 1 =>
        /\ \A j \in labelled : \E i \in KindIndices({"labels"}) : RecordsOf(i, j)
        /\ \A i \in KindIndices({"labels"}) : \E j \in labelled : RecordsOf(i, j)
        /\ \A i \in KindIndices({"labelvars"}) : i > 1 /\ log[i - 1].kind = "labels"


\* C21: in the primary variable record of every accepted variable the print
\* format word and the identical write format word carry the variable's
\* format code (Numeric 5, Date 20, Datetime 22, String 1) in the format-code
\* byte, for every width of a String variable: the width never spills into
\* the format-code byte.
C21_FormatCodeByte ==
  LET code(type) == IF type = SpssTypeNumeric THEN 5
                    ELSE IF type = SpssTypeDate THEN 20
                    ELSE IF type = SpssTypeDatetime THEN 22
                    ELSE 1
      primary == KindIndices({"var"})
      nth(k) == CHOOSE i \in primary : Cardinality({x \in primary : x <= i}) = k
  IN  /\ Cardinality(primary) = Len(variables)
      /\ \A k \in 1..Len(variables) :
           /\ SubSeq(RecordAt(nth(k)), 17, 20) = SubSeq(RecordAt(nth(k)), 21, 24)
           /\ RecordAt(nth(k))[19] = code(variables[k].spssType)


\* C22: when every variable was added before the first row, each AddValueRow
\* pushes exactly as many opcodes into the compressor as the file holds
\* type-2 records (continuation records included), whatever the keys and
\* values of the row: for each variable, one opcode per record of its own.
C22_RowFillsEveryElement ==
  [][(Len(rows') = Len(rows) + 1 /\ ~LateVariable') =>
       LET primary == KindIndices({"var"})
           nth(k) == CHOOSE i \in primary : Cardinality({x \in primary : x <= i}) = k
           last(k) == IF k = Len(variables) THEN Len(log)
                      ELSE (CHOOSE i \in primary :
                              Cardinality({x \in primary : x <= i}) = k + 1) - 1
           own(k) == {i \in KindIndices(VariableKinds) : nth(k) <= i /\ i <= last(k)}
       IN  /\ ret' = "nil"
           /\ variables' = variables
           /\ Len(cells') = Len(variables)
           /\ Len(Concat(cells')) = VarRecords'
           /\ VarRecords' = VarRecords
           /\ \A k \in 1..Len(variables) : Len(cells'[k]) = Cardinality(own(k))]_vars

C22_Witness ==
  /\ lastOp = "AddValueRow"
  /\ ~LateVariable
  /\ Len(rows) = 2
  /\ Len(variables) = 2
  /\ \E k \in 1..2 : variables[k].spssType = SpssTypeString
                     /\ Len(variables[k].labels) >= 1
                     /\ Len(cells[k]) = 5
  /\ \E k \in 1..2 : variables[k].width = 600 /\ Len(cells[k]) = 75
  /\ \E k \in 1..2 : variables[k].name \notin DOMAIN rows[2].values
  /\ Len(Concat(cells)) = 80
  /\ VarRecords = 80


\* C23: the Finish that ends a run changes, among the bytes written before
\* it, only the four bytes at offsets 80..83: the rest of the header, the
\* variable records, the prologue and the command groups stay as they were,
\* and the only bytes appended are the final command group (the pending
\* opcodes, zero padded to 8) followed by its payloads.
C23_FinishFrame ==
  [][(pc = "open" /\ pc' = "finished") =>
       /\ lastOp' = "Finish"
       /\ buf' = << >>
       /\ Len(file') = Len(Output) + 8 + Len(bytecode.data)
       /\ SubSeq(file', 1, NCasesOffset) = SubSeq(Output, 1, NCasesOffset)
       /\ SubSeq(file', NCasesOffset + 5, Len(Output)) = SubSeqFrom(Output, NCasesOffset + 5)
       /\ SubSeqFrom(file', Len(Output) + 1) =
            SubSeq(bytecode.command, 1, bytecode.index)
            \o Rep(0, 8 - bytecode.index) \o bytecode.data]_vars

C23_Witness ==
  /\ pc = "finished"
  /\ Len(rows) = MaxRows
  /\ KindCount("group") >= 2
  /\ log[Len(log)].kind = "group"
  /\ log[Len(log)].len > 8
  /\ file[Len(file) - log[Len(log)].len + 2] # 0
  /\ file[Len(file) - log[Len(log)].len + 8] = 0
  /\ I32At(file, NCasesOffset) = MaxRows
  /\ KindCount("term") = 1

=============================================================================
